---- MODULE Spec2Model ----
(***************************************************************************)
(* Bank-statement ingestion pipeline of family-finance: the five CSV       *)
(* parsers with their transaction ids, the parser factory, the             *)
(* transaction store and the directory watcher.                            *)
(***************************************************************************)
EXTENDS Integers, Sequences, FiniteSets, TLC

(***************************************************************************)
(* Bounds of the model.                                                    *)
(***************************************************************************)
MaxRows == 3        \* data rows in a file handed to a parser directly
MaxParses == 2      \* calls of parse() on the file under test
MaxFileRows == 2    \* data rows in a file dropped into the watch directory
MaxPuts == 2        \* files an operator drops into the watch directory
MaxClock == 1       \* last clock second of a run
MaxSaves == 3       \* direct calls on the store
MaxImports == 2     \* imports from the command line
MaxRegs == 3        \* register / unregister calls on the factory
MaxLines == 3       \* data lines in a file with malformed lines
MaxFiles == 3       \* files in the watch directory at the start of a poll cycle
MaxRunFiles == 2    \* files in the watch directory when run() starts
MaxScrapes == 4     \* runs of the Westpac scraper

VARIABLES
    backend,        \* "sqlite" | "postgres": the repository get_repository built
    faulty,         \* the database may fail a statement for a cause of its own
    parsers,        \* ParserFactory._parsers: the registered names, in dict order
    found,          \* what the last call on the factory was given and returned
    regs,           \* number of register / unregister calls so far
    clock,          \* wall clock, in seconds
    store,          \* rows of the transactions table
    lastSave,       \* what the last direct store call was given and returned
    saves,          \* number of direct store calls so far
    pin,            \* the files under test: a parser name and (path, content) pairs
    pout,           \* results of the parse() calls on the file under test
    watch,          \* watch directory: path -> file
    processed,      \* processed/ : destination -> file
    failed,         \* failed/ : destination -> file
    sidecars,       \* failed/*.error : destination -> error text
    queue,          \* files of the current scan still to be handled
    pc,             \* watcher: "sleep" between scans, "cycle" inside run_once
    count,          \* run_once's counter of processed files
    puts,           \* files dropped so far
    imported,       \* the (path, content) pairs whose import went through
    last,           \* outcome of the last process_file call
    lock,           \* the scraper's lock file westpac.lock exists
    scraper,        \* the scraper run in progress, or the last one that ended
    scrapes         \* number of scraper runs started so far

vars == <<backend, faulty, parsers, found, regs, clock, store, lastSave, saves, pin,
          pout, watch, processed,
          failed, sidecars, queue, pc, count, puts, imported, last, lock, scraper,
          scrapes>>

scraperVars == <<lock, scraper, scrapes>>
envVars == <<backend, faulty, scraperVars>>
factoryVars == <<parsers, found, regs>>
storeVars == <<store, lastSave, saves>>
parseVars == <<pin, pout>>
watchVars == <<watch, processed, failed, sidecars, queue, pc, count, puts,
               imported, last>>

(***************************************************************************)
(* Values.  A Decimal is its coefficient c and the number e of digits      *)
(* after the point: value c * 10^(-e).  str() tells 50.0 from 50.00, the   *)
(* comparison operators do not.                                            *)
(***************************************************************************)
Dec(c, e) == [c |-> c, e |-> e]
DecimalZero == Dec(0, 0)
DecNeg(d) == Dec(0 - d.c, d.e)
DecPositive(d) == d.c > 0
DecNegative(d) == d.c < 0

RECURSIVE Pow10(_)
Pow10(n) == IF n = 0 THEN 1 ELSE 10 * Pow10(n - 1)

\* Decimal.__eq__ : numeric equality, whatever the exponents.
DecEq(a, b) == a.c * Pow10(b.e) = b.c * Pow10(a.e)

RECURSIVE Digits(_, _)
Digits(n, width) ==
    IF width = 0 THEN ""
    ELSE Digits(n \div 10, width - 1) \o ToString(n % 10)

\* str(Decimal) for the plain (non-exponent) notation.
DecimalStr(d) ==
    LET a == IF d.c < 0 THEN 0 - d.c ELSE d.c
        sign == IF d.c < 0 THEN "-" ELSE ""
    IN IF d.e = 0 THEN sign \o ToString(a)
       ELSE sign \o ToString(a \div Pow10(d.e)) \o "." \o Digits(a % Pow10(d.e), d.e)

\* A CSV cell holding an amount: empty, a number, or text that is no number.
EmptyCell == [k |-> "empty", d |-> DecimalZero]
NumCell(d) == [k |-> "num", d |-> d]
BadCell == [k |-> "bad", d |-> DecimalZero]
\* The number written with a leading plus sign ("+250.00") and in
\* parentheses ("(5.00)").
PlusCell(d) == [k |-> "plus", d |-> d]
ParenCell(d) == [k |-> "paren", d |-> d]

Banks == <<"westpac", "anz", "bankwest", "cba", "macquarie">>
BankSet == {Banks[i] : i \in DOMAIN Banks}

\* The CSV dialect each parser reads.
Layout(bank) == IF bank \in {"anz", "cba"} THEN "headerless" ELSE bank
Formats == {"westpac", "bankwest", "macquarie", "headerless"}

WatchDirName == "incoming"
Paths == { [dir |-> "", stem |-> "anz"], [dir |-> "", stem |-> "x"],
           [dir |-> "anz-a", stem |-> "x"], [dir |-> "cba-a", stem |-> "x"] }

\* file_path.parent.name and str(file_path)
ParentName(path) == IF path.dir = "" THEN WatchDirName ELSE path.dir
PathStr(path) ==
    IF path.dir = "" THEN WatchDirName \o "/" \o path.stem \o ".csv"
    ELSE WatchDirName \o "/" \o path.dir \o "/" \o path.stem \o ".csv"

\* 'anz' in s.lower(), over the names that occur in Paths.
ContainsAnz(s) == s \in {"anz", "anz-a"}
\* 'cba' in s or 'commbank' in s or 'commonwealth' in s
ContainsCba(s) == s \in {"cba-a"}

Dates == {"20251101"}
Descs == {"BUNNINGS", "BUNNINGS 34", "BUNNINGS 700"}
Amounts == {Dec(-5000, 2), Dec(-500, 1)}
BsbCell == "306-089"
AcctCell == "7802"

\* re.sub(r'[^a-zA-Z0-9]', '', description)[:8].upper(), "TXN" when empty
DescClean(description) ==
    CASE description \in {"BUNNINGS", "BUNNINGS 34", "BUNNINGS 700",
                          "BUNNINGS - ACME", "BUNNINGS 34 - ACME",
                          "BUNNINGS 700 - ACME"} -> "BUNNINGS"
      [] description \in {"TRANSFER TO SAVINGS", "Transfer to savings"} -> "TRANSFER"
      [] OTHER -> "TXN"

\* hashlib.md5(description.encode()).hexdigest()[:4]
DescHash(description) ==
    CASE description = "BUNNINGS" -> "5121"
      [] description = "BUNNINGS 34" -> "6709"
      [] description = "BUNNINGS 700" -> "6709"
      [] description = "BUNNINGS - ACME" -> "1de0"
      [] description = "BUNNINGS 34 - ACME" -> "5604"
      [] description = "BUNNINGS 700 - ACME" -> "c00b"
      [] description = "TRANSFER TO SAVINGS" -> "250b"
      [] description = "Transfer to savings" -> "c717"
      [] OTHER -> "d41d"

(***************************************************************************)
(* CSV rows.  One row carries the columns of every dialect; each parser    *)
(* reads its own.  date is "" (empty), "bad" (not a date) or YYYYMMDD.     *)
(* ends tells where the line stops: "full" has every column, "desc" stops  *)
(* after the description (the third of the headerless columns date,        *)
(* amount, description; the narrative column of the dialects with a header *)
(* line, which stands before their amount columns), "date" after the date. *)
(***************************************************************************)
RowOf(date, d, desc, payee) ==
    [date |-> date, bsb |-> BsbCell, acct |-> AcctCell,
     debit |-> IF d.c < 0 THEN NumCell(DecNeg(d)) ELSE EmptyCell,
     credit |-> IF d.c > 0 THEN NumCell(d) ELSE EmptyCell,
     signed |-> NumCell(d),
     desc |-> desc, payee |-> payee, cat |-> "", sub |-> "", type |-> "",
     ends |-> "full"]

GoodRows == {RowOf(dt, a, ds, "") : dt \in Dates, a \in Amounts, ds \in Descs}
EmptyRow == RowOf("", Dec(-5000, 2), "BUNNINGS", "")
BadDateRow == RowOf("bad", Dec(-5000, 2), "BUNNINGS", "")
BadAmountRow == [RowOf("20251101", Dec(-5000, 2), "BUNNINGS", "")
                    EXCEPT !.debit = BadCell, !.signed = BadCell]
ShortRow == [RowOf("20251101", Dec(-5000, 2), "BUNNINGS 34", "") EXCEPT !.ends = "desc"]
DateOnlyRow == [RowOf("20251101", Dec(-5000, 2), "BUNNINGS", "") EXCEPT !.ends = "date"]
PRows == GoodRows \cup {EmptyRow, BadDateRow}

RECURSIVE SeqsUpTo(_, _)
SeqsUpTo(S, n) ==
    IF n = 0 THEN {<<>>}
    ELSE LET shorter == SeqsUpTo(S, n - 1)
         IN shorter \cup {Append(q, x) : q \in {r \in shorter : Len(r) = n - 1}, x \in S}

(***************************************************************************)
(* BaseParser                                                              *)
(***************************************************************************)
\* _parse_amount: "" gives 0, a number itself, with or without a sign;
\* "(n)" gives -n; text that is no number raises (ok = FALSE).
ParseAmount(cell) ==
    CASE cell.k = "empty" -> [ok |-> TRUE, d |-> DecimalZero]
      [] cell.k \in {"num", "plus"} -> [ok |-> TRUE, d |-> cell.d]
      [] cell.k = "paren" -> [ok |-> TRUE, d |-> DecNeg(cell.d)]
      [] OTHER -> [ok |-> FALSE, d |-> DecimalZero]

\* _parse_cba_amount: as _parse_amount, without the parentheses.
ParseCbaAmount(cell) ==
    CASE cell.k = "empty" -> [ok |-> TRUE, d |-> DecimalZero]
      [] cell.k \in {"num", "plus"} -> [ok |-> TRUE, d |-> cell.d]
      [] OTHER -> [ok |-> FALSE, d |-> DecimalZero]

\* _parse_date: strptime raises on anything that is not a date.
ParseDate(cell) == [ok |-> cell \notin {"", "bad"}, date |-> cell]

\* A variant that stamps the id with the second of the parse.
GenerateTransactionIdStamped(bank_name, txn_date, account_id, amount, description, occurrence) ==
    bank_name \o "_" \o txn_date \o "_" \o account_id \o "_" \o DecimalStr(amount)
        \o "_" \o DescClean(description) \o "-" \o DescHash(description)
        \o "_" \o ToString(occurrence) \o "_" \o ToString(clock)

GenerateTransactionId(bank_name, txn_date, account_id, amount, description, occurrence) ==
    bank_name \o "_" \o txn_date \o "_" \o account_id \o "_" \o DecimalStr(amount)
        \o "_" \o DescClean(description) \o "-" \o DescHash(description)
        \o "_" \o ToString(occurrence)

Signature(txn) == <<txn.date, txn.account_id, DecimalStr(txn.amount), txn.description>>

\* defaultdict(int): a counter that has seen no signature yet.
NewCounter == [s \in {} |-> 0]
CounterGet(counter, s) == IF s \in DOMAIN counter THEN counter[s] ELSE 0
CounterSet(counter, s, n) ==
    [t \in DOMAIN counter \cup {s} |-> IF t = s THEN n ELSE counter[t]]

RECURSIVE AssignFrom(_, _, _)
AssignFrom(transactions_data, i, counter) ==
    IF i > Len(transactions_data) THEN <<>>
    ELSE LET txn == transactions_data[i]
             n == CounterGet(counter, Signature(txn)) + 1
         IN <<[txn EXCEPT !.occurrence = n]>>
              \o AssignFrom(transactions_data, i + 1, CounterSet(counter, Signature(txn), n))

AssignOccurrenceNumbers(transactions_data) ==
    AssignFrom(transactions_data, 1, NewCounter)

(***************************************************************************)
(* The five parsers.  A parsed row is ok = FALSE when _parse_row returned  *)
(* None or raised (parse() skips the row either way).                      *)
(***************************************************************************)
NoTxn == [ok |-> FALSE, date |-> "", amount |-> DecimalZero, description |-> "",
          account_id |-> "", transaction_type |-> "debit", original_category |-> "",
          row_number |-> 0, occurrence |-> 0]

TxnData(date, amount, description, account_id, transaction_type, original_category, row_num) ==
    [ok |-> TRUE, date |-> date, amount |-> amount, description |-> description,
     account_id |-> account_id, transaction_type |-> transaction_type,
     original_category |-> original_category, row_number |-> row_num,
     occurrence |-> row_num]

\* A variant of the sign rule that looks at the debit column first.
SignedFromColumnsDebitFirst(debit_amount, credit_amount) ==
    IF DecPositive(debit_amount) THEN [amount |-> DecNeg(debit_amount), type |-> "debit"]
    ELSE IF DecPositive(credit_amount) THEN [amount |-> credit_amount, type |-> "credit"]
    ELSE [amount |-> DecimalZero, type |-> "debit"]

\* Separate debit/credit columns: the signed amount and the flow type.
SignedFromColumns(debit_amount, credit_amount) ==
    IF DecPositive(credit_amount) THEN [amount |-> credit_amount, type |-> "credit"]
    ELSE IF DecPositive(debit_amount) THEN [amount |-> DecNeg(debit_amount), type |-> "debit"]
    ELSE [amount |-> DecimalZero, type |-> "debit"]

\* One signed column: the flow type of the amount.
TypeFromSign(amount) == IF DecPositive(amount) THEN "credit" ELSE "debit"

\* kw.upper() in narrative.upper() for one of the bank's transfer keywords,
\* over the descriptions of the model.
WestpacKeyword(narrative) == narrative \in {"TRANSFER TO SAVINGS", "Transfer to savings"}
ANZKeyword(description) == description \in {"TRANSFER TO SAVINGS", "Transfer to savings"}
CBAKeyword(description) == description \in {"TRANSFER TO SAVINGS", "Transfer to savings"}
MacquarieKeyword(details) == details \in {"TRANSFER TO SAVINGS", "Transfer to savings"}

\* _read_csv with a header line: csv.DictReader fills the columns a short
\* line lacks with None, and row.get(col, '').strip() raises on None.
MissingColumn(row) == row.ends # "full"

\* _read_csv without a header line: the row dict has the fields of the line
\* only, and row.get(str(col), '') gives '' for a column the line lacks.
FieldOr(row, present, value, default) == IF row.ends \in present THEN value ELSE default

WestpacIsTransfer(narrative, category) ==
    category = "PAYMENT" /\ WestpacKeyword(narrative)

WestpacParseRow(row, row_num, path) ==
    IF MissingColumn(row) THEN NoTxn
    ELSE IF row.date = "" \/ row.desc = "" THEN NoTxn
    ELSE LET d == ParseDate(row.date)
             debit == IF row.debit.k = "empty" THEN [ok |-> TRUE, d |-> DecimalZero]
                      ELSE ParseAmount(row.debit)
             credit == IF row.credit.k = "empty" THEN [ok |-> TRUE, d |-> DecimalZero]
                       ELSE ParseAmount(row.credit)
             sg == SignedFromColumns(debit.d, credit.d)
             type == IF WestpacIsTransfer(row.desc, row.cat) THEN "transfer" ELSE sg.type
         IN IF ~d.ok \/ ~debit.ok \/ ~credit.ok THEN NoTxn
            ELSE TxnData(d.date, sg.amount, row.desc, row.acct, type, row.cat, row_num)

\* _derive_account_id of ANZParser and CBAParser: the parent folder's name,
\* the file's stem when the path has no parent folder.
DeriveAccountId(path) ==
    IF ParentName(path) # "" /\ ParentName(path) # "." THEN ParentName(path)
    ELSE path.stem

ANZParseRowData(row, row_num, path, account_id) ==
    LET description == FieldOr(row, {"full", "desc"}, row.desc, "")
        amount_str == FieldOr(row, {"full", "desc"}, row.signed, EmptyCell)
        payee == FieldOr(row, {"full"}, row.payee, "")
    IN
    IF row.date = "" \/ description = "" THEN NoTxn
    ELSE LET d == ParseDate(row.date)
             amt == ParseAmount(amount_str)
             type == IF ANZKeyword(description) THEN "transfer" ELSE TypeFromSign(amt.d)
             full_description == IF payee # "" THEN description \o " - " \o payee
                                 ELSE description
         IN IF ~d.ok \/ ~amt.ok THEN NoTxn
            ELSE TxnData(d.date, amt.d, full_description, account_id, type, "", row_num)

BankwestAccountId(bsb, account_num) ==
    IF bsb # "" /\ account_num # "" THEN bsb \o "-" \o account_num
    ELSE IF account_num # "" THEN account_num ELSE bsb

BankwestMapTransactionType(type_code, default) ==
    CASE type_code = "WDL" -> "debit"
      [] type_code = "DEP" -> "credit"
      [] type_code = "TFR" -> "transfer"
      [] type_code = "INT" -> "credit"
      [] type_code = "FEE" -> "debit"
      [] OTHER -> default

BankwestParseRow(row, row_num, path) ==
    IF MissingColumn(row) THEN NoTxn
    ELSE IF row.date = "" \/ row.desc = "" THEN NoTxn
    ELSE LET d == ParseDate(row.date)
             debit == IF row.debit.k = "empty" THEN [ok |-> TRUE, d |-> DecimalZero]
                      ELSE ParseAmount(row.debit)
             credit == IF row.credit.k = "empty" THEN [ok |-> TRUE, d |-> DecimalZero]
                       ELSE ParseAmount(row.credit)
             sg == SignedFromColumns(debit.d, credit.d)
             type == BankwestMapTransactionType(row.type, sg.type)
         IN IF ~d.ok \/ ~debit.ok \/ ~credit.ok THEN NoTxn
            ELSE TxnData(d.date, sg.amount, row.desc, BankwestAccountId(row.bsb, row.acct),
                         type, row.type, row_num)

CBAParseRow(row, row_num, path, account_id) ==
    LET description == FieldOr(row, {"full", "desc"}, row.desc, "")
        amount_str == FieldOr(row, {"full", "desc"}, row.signed, EmptyCell)
    IN
    IF row.date = "" \/ description = "" THEN NoTxn
    ELSE LET d == ParseDate(row.date)
             amt == ParseCbaAmount(amount_str)
             type == IF CBAKeyword(description) THEN "transfer" ELSE TypeFromSign(amt.d)
         IN IF ~d.ok \/ ~amt.ok THEN NoTxn
            ELSE TxnData(d.date, amt.d, description, account_id, type, "", row_num)

MacquarieIsTransfer(category, subcategory, details) ==
    \/ (category \in {"Financial", "financial"} /\ subcategory \in {"Transfers", "transfers"})
    \/ MacquarieKeyword(details)

\* re.sub(r'[^a-z0-9]+', '-', name_lower).strip('-') over the account names
\* of the model, after the platinum / savings / transaction shortcuts.
MacquarieDeriveAccountId(account_name) ==
    CASE account_name = "" -> "macquarie-unknown"
      [] account_name = "Savings Account" -> "macquarie-savings"
      [] OTHER -> "macquarie-" \o account_name

MacquarieCategory(category, subcategory) ==
    IF category # "" /\ subcategory # "" THEN category \o " > " \o subcategory
    ELSE IF category # "" THEN category ELSE subcategory

MacquarieParseRow(row, row_num, path) ==
    IF MissingColumn(row) THEN NoTxn
    ELSE IF row.date = "" \/ row.desc = "" THEN NoTxn
    ELSE LET d == ParseDate(row.date)
             debit == IF row.debit.k = "empty" THEN [ok |-> TRUE, d |-> DecimalZero]
                      ELSE ParseAmount(row.debit)
             credit == IF row.credit.k = "empty" THEN [ok |-> TRUE, d |-> DecimalZero]
                       ELSE ParseAmount(row.credit)
             sg == SignedFromColumns(debit.d, credit.d)
             type == IF MacquarieIsTransfer(row.cat, row.sub, row.desc) THEN "transfer"
                     ELSE sg.type
         IN IF ~d.ok \/ ~debit.ok \/ ~credit.ok THEN NoTxn
            ELSE TxnData(d.date, sg.amount, row.desc, MacquarieDeriveAccountId(row.acct),
                         type, MacquarieCategory(row.cat, row.sub), row_num)

\* enumerate(rows, start=2) for the dialects with a header line, start=1 for
\* the headerless ones.
FirstRowNum(bank) == IF Layout(bank) = "headerless" THEN 1 ELSE 2

ParseRow(bank, row, row_num, path) ==
    CASE bank = "westpac" -> WestpacParseRow(row, row_num, path)
      [] bank = "anz" -> ANZParseRowData(row, row_num, path, DeriveAccountId(path))
      [] bank = "bankwest" -> BankwestParseRow(row, row_num, path)
      [] bank = "cba" -> CBAParseRow(row, row_num, path, DeriveAccountId(path))
      [] OTHER -> MacquarieParseRow(row, row_num, path)

\* The loop of parse(): the rows that gave a transaction, in row order.
RECURSIVE ParsedRows(_, _, _, _)
ParsedRows(bank, rows, i, path) ==
    IF i > Len(rows) THEN <<>>
    ELSE LET data == ParseRow(bank, rows[i], i + FirstRowNum(bank) - 1, path)
         IN (IF data.ok THEN <<data>> ELSE <<>>) \o ParsedRows(bank, rows, i + 1, path)

\* Only ANZParser.parse runs the occurrence pass; the other four hand the
\* row number to _generate_transaction_id.
WithOccurrence(bank, parsed_data) ==
    IF bank = "anz" THEN AssignOccurrenceNumbers(parsed_data) ELSE parsed_data

Transaction(bank, path, data, now) ==
    [id |-> GenerateTransactionId(bank, data.date, data.account_id, data.amount,
                                  data.description, data.occurrence),
     date |-> data.date, amount |-> data.amount, description |-> data.description,
     account_id |-> data.account_id, bank_source |-> bank,
     source_file |-> PathStr(path), original_category |-> data.original_category,
     category |-> "", transaction_type |-> data.transaction_type,
     row_number |-> data.row_number, created_at |-> now]

\* parser.parse(file_path) on a readable file.  A file written in another
\* dialect gives no transaction: every row lacks the date or description
\* column this parser reads, or its first column is no date.
Parse(bank, path, content, now) ==
    IF content.fmt # Layout(bank) THEN <<>>
    ELSE LET parsed_data == WithOccurrence(bank, ParsedRows(bank, content.rows, 1, path))
         IN [i \in 1..Len(parsed_data) |-> Transaction(bank, path, parsed_data[i], now)]

Ids(transactions) == [i \in 1..Len(transactions) |-> transactions[i].id]

(***************************************************************************)
(* ParserFactory                                                           *)
(***************************************************************************)
\* can_parse: the header line for westpac, bankwest and macquarie (a file
\* that cannot be decoded gives False), the path for anz and cba.
CanParse(bank, path, content) ==
    CASE bank = "anz" -> ContainsAnz(ParentName(path)) \/ ContainsAnz(path.stem)
      [] bank = "cba" -> ContainsCba(ParentName(path))
      [] OTHER -> content.fmt = bank

\* A parser class of a client, registered as "custom": it reads a dialect of
\* its own (no file of the model is in it) and opens the file without a guard,
\* so its can_parse raises on a file that is not text.
CustomName == "custom"
Names == BankSet \cup {CustomName}

\* What parser.can_parse(file_path) does: "True", "False" or "raise".
CanParseOutcome(name, path, content) ==
    IF name = CustomName THEN (IF content.fmt = "binary" THEN "raise" ELSE "False")
    ELSE IF CanParse(name, path, content) THEN "True" ELSE "False"

\* A variant that gives up at the first parser whose can_parse raises.
RECURSIVE DetectFromStrict(_, _, _, _)
DetectFromStrict(registry, i, path, content) ==
    IF i > Len(registry) THEN "none"
    ELSE IF CanParseOutcome(registry[i], path, content) = "raise" THEN "none"
    ELSE IF CanParseOutcome(registry[i], path, content) = "True" THEN registry[i]
    ELSE DetectFromStrict(registry, i + 1, path, content)

\* The loop of detect_parser: an exception of can_parse is printed and the
\* loop goes on (continue), like a False.
RECURSIVE DetectFrom(_, _, _, _)
DetectFrom(registry, i, path, content) ==
    IF i > Len(registry) THEN "none"
    ELSE IF CanParseOutcome(registry[i], path, content) = "True" THEN registry[i]
    ELSE DetectFrom(registry, i + 1, path, content)

DetectParser(registry, path, content) == DetectFrom(registry, 1, path, content)

\* parse_file without a parser name: ValueError when no parser matches, the
\* parser's UnicodeDecodeError (a ValueError) when the file is not text.
ParseFile(registry, path, content, now) ==
    LET parser == DetectParser(registry, path, content)
    IN IF parser = "none" THEN [raised |-> "no_parser", transactions |-> <<>>]
       ELSE IF content.fmt = "binary" THEN [raised |-> "decode", transactions |-> <<>>]
       ELSE [raised |-> "", transactions |-> Parse(parser, path, content, now)]

Registered(registry) == {registry[i] : i \in DOMAIN registry}

\* A variant of parse_file that trusts a given name only when that parser's
\* can_parse accepts the file, and detects otherwise.
ParseFileChecked(registry, path, content, parser_name, now) ==
    LET parser == IF parser_name # "" /\ parser_name \in Registered(registry)
                       /\ CanParseOutcome(parser_name, path, content) = "True"
                  THEN parser_name ELSE DetectParser(registry, path, content)
    IN IF parser_name # "" /\ parser_name \notin Registered(registry)
       THEN [raised |-> "unknown_parser", parser |-> "none", transactions |-> <<>>]
       ELSE IF parser = "none"
       THEN [raised |-> "no_parser", parser |-> "none", transactions |-> <<>>]
       ELSE IF content.fmt = "binary"
       THEN [raised |-> "decode", parser |-> parser, transactions |-> <<>>]
       ELSE [raised |-> "", parser |-> parser,
             transactions |-> Parse(parser, path, content, now)]

\* parse_file(file_path, parser_name).  parser_name = "" stands for None (the
\* code tests `if parser_name:`, so an empty name is no name).  With a name:
\* get_parser, ValueError("Unknown parser") when it gives None, no detection.
ParseFileWith(registry, path, content, parser_name, now) ==
    IF parser_name # ""
    THEN IF parser_name \notin Registered(registry)
         THEN [raised |-> "unknown_parser", parser |-> "none", transactions |-> <<>>]
         ELSE IF content.fmt = "binary"
         THEN [raised |-> "decode", parser |-> parser_name, transactions |-> <<>>]
         ELSE [raised |-> "", parser |-> parser_name,
               transactions |-> Parse(parser_name, path, content, now)]
    ELSE LET r == ParseFile(registry, path, content, now)
         IN [raised |-> r.raised, parser |-> DetectParser(registry, path, content),
             transactions |-> r.transactions]

\* str(e) of the ValueError parse_file raises.
FactoryError(raised, path, registry, parser_name) ==
    CASE raised = "unknown_parser" -> [kind |-> raised, parser_name |-> parser_name]
      [] raised = "no_parser" -> [kind |-> raised, path |-> PathStr(path),
                                  parsers |-> registry]
      [] OTHER -> [kind |-> raised]

\* register: _parsers[parser_name] = parser_class.  A dict keeps the place of
\* a key that is assigned again; a new key goes to the end.
Register(registry, name) ==
    IF name \in Registered(registry) THEN registry ELSE Append(registry, name)

\* unregister: del _parsers[name] when the name is registered.
Unregister(registry, name) == SelectSeq(registry, LAMBDA n : n # name)

\* The factory after the import of the package: register_default_parsers.
NoFound == [op |-> "none", parser_name |-> "", raised |-> "", parser |-> "",
            transactions |-> <<>>, error |-> [kind |-> ""]]

FactoryInit ==
    /\ parsers = Banks
    /\ found = NoFound
    /\ regs = 0

(***************************************************************************)
(* Parser runs: a file is handed to one parser's parse() several times.    *)
(***************************************************************************)
ParsePaths == {p \in Paths : p.stem = "anz" \/ p.dir = "anz-a"}

FileAt(path, content) == [path |-> path, content |-> content]

\* The path tells for the parsers that take the account from it.
PathsFor(bank) == IF bank \in {"anz", "cba"} THEN ParsePaths
                  ELSE {[dir |-> "", stem |-> "anz"]}

ParseInit ==
    /\ \E b \in BankSet :
          pin \in {[bank |-> b, files |-> <<FileAt(p, [fmt |-> Layout(b), rows |-> rs])>>] :
                      p \in PathsFor(b), rs \in SeqsUpTo(PRows, MaxRows)}
    /\ pout = <<>>

\* One-row files over the amount, description, category and type-code
\* columns each dialect reads.
DebitCells == {EmptyCell, NumCell(Dec(1140, 2)), NumCell(Dec(0, 2)), ParenCell(Dec(500, 2))}
CreditCells == {EmptyCell, NumCell(Dec(25000, 2)), NumCell(Dec(-300, 2))}
SignedCells == {EmptyCell, NumCell(Dec(-5000, 2)), PlusCell(Dec(25000, 2)),
                NumCell(Dec(0, 2)), ParenCell(Dec(500, 2))}
TypeDescs == {"BUNNINGS", "TRANSFER TO SAVINGS", "Transfer to savings"}
TypeCategories == {<<"", "">>, <<"PAYMENT", "">>, <<"Financial", "Transfers">>}
TypeCodes == {"", "WDL", "DEP", "TFR", "INT", "FEE"}

TypeRow(debit, credit, signed, desc, cs, code) ==
    [RowOf("20251101", Dec(-5000, 2), desc, "")
        EXCEPT !.debit = debit, !.credit = credit, !.signed = signed,
               !.cat = cs[1], !.sub = cs[2], !.type = code]

TypeRows(bank) ==
    IF Layout(bank) = "headerless"
    THEN {TypeRow(EmptyCell, EmptyCell, sg, ds, <<"", "">>, "") :
            sg \in SignedCells, ds \in TypeDescs}
    ELSE {TypeRow(db, cr, EmptyCell, ds, cs, code) :
            db \in DebitCells, cr \in CreditCells, ds \in TypeDescs,
            cs \in TypeCategories,
            code \in IF bank = "bankwest" THEN TypeCodes ELSE {""}}

TypesInit ==
    /\ \E b \in BankSet :
          pin \in {[bank |-> b, files |-> <<FileAt(p, [fmt |-> Layout(b), rows |-> <<r>>])>>] :
                      p \in PathsFor(b), r \in TypeRows(b)}
    /\ pout = <<>>

\* Files with malformed lines: empty, bad date, bad amount, short.
LineRows == {RowOf("20251101", Dec(-5000, 2), "BUNNINGS", ""),
             RowOf("20251101", Dec(-500, 1), "BUNNINGS 700", ""),
             EmptyRow, BadDateRow, BadAmountRow, ShortRow, DateOnlyRow}

LinesInit ==
    /\ \E b \in BankSet :
          pin \in {[bank |-> b, files |-> <<FileAt(p, [fmt |-> Layout(b), rows |-> rs])>>] :
                      p \in PathsFor(b), rs \in SeqsUpTo(LineRows, MaxLines)}
    /\ pout = <<>>

ParseCall ==
    /\ Len(pout) < MaxParses
    /\ pout' = Append(pout, Parse(pin.bank, pin.files[1].path, pin.files[1].content, clock))
    /\ UNCHANGED <<pin, clock, envVars, factoryVars, storeVars, watchVars>>

Tick ==
    /\ clock < MaxClock
    /\ clock' = clock + 1
    /\ UNCHANGED <<envVars, factoryVars, storeVars, parseVars, watchVars>>

(***************************************************************************)
(* The transaction store (SQLiteRepository, PostgresRepository).           *)
(***************************************************************************)
Backends == {"sqlite", "postgres"}

\* The columns of the transactions table; raw_transaction is not stored.
StoredRow(t) ==
    [id |-> t.id, date |-> t.date, amount |-> t.amount, description |-> t.description,
     account_id |-> t.account_id, bank_source |-> t.bank_source,
     source_file |-> t.source_file, original_category |-> t.original_category,
     category |-> t.category, transaction_type |-> t.transaction_type,
     created_at |-> t.created_at]

IdIn(table, id) == \E r \in table : r.id = id

\* A variant of the table without a primary key: no INSERT is refused.
NoPrimaryKey(table, row) == FALSE

\* id TEXT PRIMARY KEY / Column(String, primary_key=True): the INSERT of an
\* id that is in the table raises IntegrityError.
IntegrityError(table, row) == \E r \in table : r.id = row.id

\* A variant that writes with INSERT OR REPLACE: the new row takes the place
\* of a stored row of the same id.
SaveTransactionReplace(be, table, t, fault) ==
    IF fault THEN [store |-> table, ret |-> IF be = "sqlite" THEN "raise" ELSE "False"]
    ELSE [store |-> {r \in table : r.id # t.id} \cup {StoredRow(t)}, ret |-> "True"]

\* A variant that, on a duplicate, overwrites the stored category with the
\* incoming one before it reports the duplicate.
SaveTransactionUpsert(be, table, t, fault) ==
    IF fault THEN [store |-> table, ret |-> IF be = "sqlite" THEN "raise" ELSE "False"]
    ELSE IF \E r \in table : r.id = t.id
         THEN [store |-> {IF r.id = t.id THEN [r EXCEPT !.category = t.category] ELSE r :
                            r \in table},
               ret |-> "False"]
    ELSE [store |-> table \cup {StoredRow(t)}, ret |-> "True"]

\* save_transaction.  fault: the database fails this statement for a reason
\* of its own (locked, connection lost).  SQLite catches IntegrityError only,
\* so such an error leaves save_transaction as an exception; Postgres catches
\* every exception and returns False.
SaveTransaction(be, table, t, fault) ==
    IF fault THEN [store |-> table, ret |-> IF be = "sqlite" THEN "raise" ELSE "False"]
    ELSE IF IntegrityError(table, StoredRow(t)) THEN [store |-> table, ret |-> "False"]
    ELSE [store |-> table \cup {StoredRow(t)}, ret |-> "True"]

RECURSIVE SaveFrom(_, _, _, _, _, _, _)
SaveFrom(be, table, transactions, i, faults, saved_count, skipped_count) ==
    IF i > Len(transactions)
    THEN [store |-> table, saved |-> saved_count, skipped |-> skipped_count, raised |-> FALSE]
    ELSE LET r == SaveTransaction(be, table, transactions[i], i \in faults)
         IN CASE r.ret = "raise" ->
                    [store |-> r.store, saved |-> saved_count, skipped |-> skipped_count,
                     raised |-> TRUE]
              [] r.ret = "True" ->
                    SaveFrom(be, r.store, transactions, i + 1, faults,
                             saved_count + 1, skipped_count)
              [] OTHER ->
                    SaveFrom(be, r.store, transactions, i + 1, faults,
                             saved_count, skipped_count + 1)

\* A variant of save_transactions with one database transaction around the
\* batch: an error rolls back the rows the batch had inserted.
SaveTransactionsAtomic(be, table, transactions, faults) ==
    LET r == SaveFrom(be, table, transactions, 1, faults, 0, 0)
    IN IF r.raised THEN [r EXCEPT !.store = table] ELSE r

\* A variant of save_transactions that lets a duplicate surface as an error.
SaveTransactionsStrict(be, table, transactions, faults) ==
    LET r == SaveFrom(be, table, transactions, 1, faults, 0, 0)
    IN IF r.skipped > 0 THEN [r EXCEPT !.raised = TRUE] ELSE r

\* save_transactions: one save_transaction per element, in order.
SaveTransactions(be, table, transactions, faults) ==
    SaveFrom(be, table, transactions, 1, faults, 0, 0)

(***************************************************************************)
(* Store runs: a client calls the store directly with any transactions.    *)
(***************************************************************************)
PoolRows == {RowOf("20251101", Dec(-5000, 2), ds, "") : ds \in {"BUNNINGS", "BUNNINGS 34"}}

\* Transactions a client may hand to the store: the same ids come with
\* different source files and creation times.
StorePool ==
    UNION {{Parse("westpac", [dir |-> "", stem |-> "x"],
                  [fmt |-> "westpac", rows |-> <<r>>], now)[1] : r \in PoolRows} :
              now \in {0, MaxClock}}

NoSave == [op |-> "none", batch |-> <<>>, faults |-> {}, before |-> {},
           ret |-> "", saved |-> 0, skipped |-> 0, file |-> 0, again |-> FALSE]

StoreInit ==
    /\ store = {}
    /\ lastSave = NoSave
    /\ saves = 0

CallSaveTransaction ==
    /\ saves < MaxSaves
    /\ \E t \in StorePool, fault \in BOOLEAN :
          LET r == SaveTransaction(backend, store, t, fault)
          IN /\ store' = r.store
             /\ lastSave' = [NoSave EXCEPT !.op = "save_transaction", !.batch = <<t>>,
                                            !.faults = IF fault THEN {1} ELSE {},
                                            !.before = store, !.ret = r.ret]
    /\ saves' = saves + 1
    /\ UNCHANGED <<envVars, factoryVars, clock, parseVars, watchVars>>

CallSaveTransactions ==
    /\ saves < MaxSaves
    /\ \E batch \in SeqsUpTo(StorePool, 2) :
       \E faults \in SUBSET (1..Len(batch)) :
          LET r == SaveTransactions(backend, store, batch, faults)
          IN /\ store' = r.store
             /\ lastSave' = [NoSave EXCEPT !.op = "save_transactions", !.batch = batch,
                                            !.faults = faults, !.before = store,
                                            !.ret = IF r.raised THEN "raise" ELSE "return",
                                            !.saved = r.saved, !.skipped = r.skipped]
    /\ saves' = saves + 1
    /\ UNCHANGED <<envVars, factoryVars, clock, parseVars, watchVars>>

\* Categories the external classifier assigns.
Categories == {"Hardware"}

\* update_transaction_category: UPDATE transactions SET category WHERE id.
UpdateTransactionCategory(table, transaction_id, category) ==
    {IF r.id = transaction_id THEN [r EXCEPT !.category = category] ELSE r : r \in table}

CallUpdateTransactionCategory ==
    /\ \E transaction_id \in {t.id : t \in StorePool}, category \in Categories :
          /\ store' = UpdateTransactionCategory(store, transaction_id, category)
          /\ lastSave' = [NoSave EXCEPT !.op = "update_transaction_category",
                                         !.before = store,
                                         !.ret = IF IdIn(store, transaction_id)
                                                 THEN "True" ELSE "False"]
    /\ UNCHANGED <<envVars, factoryVars, clock, saves, parseVars, watchVars>>

(***************************************************************************)
(* Imports from the command line: parse_transactions <file> --parser <bank> *)
(* --save-to-db, on either of two files.                                   *)
(***************************************************************************)
ImportContents == {[fmt |-> f, rows |-> rs] : f \in Formats,
                                               rs \in SeqsUpTo(PoolRows, MaxFileRows)}

ImportInit ==
    /\ \E b \in BankSet :
          pin \in {[bank |-> b, files |-> <<FileAt([dir |-> "", stem |-> "anz"], c1),
                                            FileAt(p2, c2)>>] :
                      p2 \in PathsFor(b),
                      c1 \in {c \in ImportContents : c.fmt = Layout(b)},
                      c2 \in {c \in ImportContents : c.fmt = Layout(b)}}
    /\ pout = <<>>

\* main(): process_file gives parse_file's transactions ([] on an error);
\* with --save-to-db they go to save_transactions when there are any.  The
\* store works during these runs: no statement fails for a cause other than
\* the primary key.
ImportFile ==
    /\ saves < MaxImports
    /\ \E i \in DOMAIN pin.files :
          LET f == pin.files[i]
              transactions == Parse(pin.bank, f.path, f.content, clock)
              r == SaveTransactions(backend, store, transactions, {})
          IN /\ store' = r.store
             /\ lastSave' = [NoSave EXCEPT !.op = "import", !.batch = transactions,
                                            !.before = store, !.ret = "return",
                                            !.saved = r.saved, !.skipped = r.skipped,
                                            !.file = i, !.again = (f \in imported)]
             /\ imported' = imported \cup {f}
    /\ saves' = saves + 1
    /\ UNCHANGED <<envVars, factoryVars, clock, parseVars, watch, processed, failed, sidecars, queue,
                   pc, count, puts, last>>

(***************************************************************************)
(* FileWatcher.  A file is [fid, content, tries]: fid numbers the drops,   *)
(* tries counts the process_file calls the file has had where it lies.     *)
(***************************************************************************)
WRows == PoolRows
\* Statements in one of the dialects, and a file that is not text.
TextContents == {[fmt |-> f, rows |-> rs] : f \in Formats, rs \in SeqsUpTo(WRows, MaxFileRows)}
BinaryContent == [fmt |-> "binary", rows |-> <<>>]

NoFiles == [k \in {} |-> 0]
Put(dir, key, file) == [k \in DOMAIN dir \cup {key} |-> IF k = key THEN file ELSE dir[k]]
Drop(dir, key) == [k \in DOMAIN dir \ {key} |-> dir[k]]

\* Two more files of the watch directory itself, a.csv and m.csv.
CyclePaths == Paths \cup {[dir |-> "", stem |-> "a"], [dir |-> "", stem |-> "m"]}

\* sorted(): the paths of the model in the order Path compares them.
PathOrder == << [dir |-> "", stem |-> "a"],
                [dir |-> "anz-a", stem |-> "x"], [dir |-> "", stem |-> "anz"],
                [dir |-> "cba-a", stem |-> "x"], [dir |-> "", stem |-> "m"],
                [dir |-> "", stem |-> "x"] >>

\* A variant of scan_for_files that returns the files in reverse order.
ScanForFilesReversed(dir) ==
    LET q == SelectSeq(PathOrder, LAMBDA p : p \in DOMAIN dir)
    IN [i \in DOMAIN q |-> q[Len(q) + 1 - i]]

\* scan_for_files: *.csv and */*.csv of the watch directory, sorted.
ScanForFiles(dir) == SelectSeq(PathOrder, LAMBDA p : p \in DOMAIN dir)

\* A variant of the error text that leaves the registered parsers out.
ErrorTextBare(raised, path, registry) ==
    [kind |-> raised, path |-> PathStr(path), parsers |-> <<>>]

\* The error text str(e) that reaches the sidecar note.
ErrorText(raised, path, registry) ==
    [kind |-> raised, path |-> PathStr(path),
     parsers |-> IF raised = "no_parser" THEN registry ELSE <<>>]

\* _move_to_processed: processed/[subdir/]<stem>_<timestamp>.csv
ProcessedDest(path, now) == [dir |-> path.dir, stem |-> path.stem, ts |-> now]
\* _move_to_failed: failed/<stem>_<timestamp>.csv and its .error note
FailedDest(path, now) == [stem |-> path.stem, ts |-> now]

NoCall == [path |-> [dir |-> "", stem |-> ""], fid |-> 0, content |-> [fmt |-> "", rows |-> <<>>],
           ret |-> FALSE, parsed |-> 0, saved |-> 0, skipped |-> 0, faults |-> {},
           again |-> FALSE, before |-> {}, error |-> ""]

WatchInit ==
    /\ watch = NoFiles
    /\ processed = NoFiles
    /\ failed = NoFiles
    /\ sidecars = NoFiles
    /\ queue = <<>>
    /\ pc = "sleep"
    /\ count = 0
    /\ puts = 0
    /\ imported = {}
    /\ last = NoCall

\* An operator (or the scraper) drops a file into the watch directory while
\* the watcher sleeps; a drop during a cycle is not seen before the next scan.
\* The file is a copy of the statement under test or a file that is not text.
PutFile ==
    /\ pc = "sleep"
    /\ puts < MaxPuts
    /\ \E path \in Paths \ DOMAIN watch, content \in {pin.files[1].content, BinaryContent} :
          watch' = Put(watch, path, [fid |-> puts + 1, content |-> content, tries |-> 0])
    /\ puts' = puts + 1
    /\ UNCHANGED <<envVars, factoryVars, clock, storeVars, parseVars, processed, failed, sidecars,
                   queue, pc, count, imported, last>>

\* run_once, up to its loop: scan; with no file it returns 0 and run() sleeps.
Scan ==
    /\ pc = "sleep"
    /\ queue' = ScanForFiles(watch)
    /\ pc' = IF queue' = <<>> THEN "sleep" ELSE "cycle"
    /\ count' = 0
    /\ UNCHANGED <<envVars, factoryVars, clock, storeVars, parseVars, watch, processed, failed,
                   sidecars, puts, imported, last>>

\* A variant of _move_to_failed that moves the file and writes no note.
MoveToFailedWithoutNote(path, error) ==
    /\ failed' = Put(failed, FailedDest(path, clock), watch[path])
    /\ sidecars' = sidecars
    /\ watch' = Drop(watch, path)
    /\ UNCHANGED processed

MoveToFailed(path, error) ==
    /\ failed' = Put(failed, FailedDest(path, clock), watch[path])
    /\ sidecars' = Put(sidecars, FailedDest(path, clock),
                       [name |-> path.stem \o ".csv", error |-> error])
    /\ watch' = Drop(watch, path)
    /\ UNCHANGED processed

MoveToProcessed(path) ==
    /\ processed' = Put(processed, ProcessedDest(path, clock), watch[path])
    /\ watch' = Drop(watch, path)
    /\ UNCHANGED <<failed, sidecars>>

\* The statements of a batch of n that the database may fail.
FaultSets(n) == IF faulty THEN SUBSET (1..n) ELSE {{}}

\* One pass of run_once's loop: process_file on the next file of the scan.
ProcessFile ==
    /\ pc = "cycle"
    /\ queue # <<>>
    /\ LET path == Head(queue)
           file == watch[path]
           res == ParseFile(parsers, path, file.content, clock)
           n == Len(res.transactions)
           call == [NoCall EXCEPT !.path = path, !.fid = file.fid,
                                  !.content = file.content, !.parsed = n,
                                  !.again = (FileAt(path, file.content) \in imported),
                                  !.before = store]
       IN \/ /\ res.raised # ""
             /\ MoveToFailed(path, ErrorText(res.raised, path, parsers))
             /\ last' = call
             /\ UNCHANGED <<store, count, imported>>
          \/ /\ res.raised = ""
             /\ n = 0
             /\ watch' = [watch EXCEPT ![path].tries = IF @ < 2 THEN @ + 1 ELSE @]
             /\ last' = call
             /\ UNCHANGED <<store, count, imported, processed, failed, sidecars>>
          \/ /\ res.raised = ""
             /\ n > 0
             /\ \E faults \in FaultSets(n) :
                   LET sv == SaveTransactions(backend, store, res.transactions, faults)
                   IN /\ store' = sv.store
                      /\ IF sv.raised
                         THEN /\ MoveToFailed(path, ErrorText("store", path, parsers))
                              /\ last' = [call EXCEPT !.faults = faults]
                              /\ UNCHANGED <<count, imported>>
                         ELSE /\ MoveToProcessed(path)
                              /\ last' = [call EXCEPT !.faults = faults, !.ret = TRUE,
                                                      !.saved = sv.saved,
                                                      !.skipped = sv.skipped]
                              /\ count' = count + 1
                              /\ imported' = IF faults = {}
                                             THEN imported \cup {FileAt(path, file.content)}
                                             ELSE imported
    /\ queue' = Tail(queue)
    /\ UNCHANGED <<envVars, factoryVars, clock, lastSave, saves, parseVars, pc, puts>>

\* run_once returns its count; run() logs the total and sleeps.
EndCycle ==
    /\ pc = "cycle"
    /\ queue = <<>>
    /\ pc' = "sleep"
    /\ UNCHANGED <<envVars, factoryVars, clock, storeVars, parseVars, watch, processed, failed,
                   sidecars, queue, count, puts, imported, last>>

(***************************************************************************)
(* Transaction with its optional fields, and its dictionary form.          *)
(* An optional value is a record with some = FALSE for None.               *)
(***************************************************************************)
NoDec == [some |-> FALSE, d |-> DecimalZero]
SomeDec(d) == [some |-> TRUE, d |-> d]
NoStr == [some |-> FALSE, s |-> ""]
SomeStr(str) == [some |-> TRUE, s |-> str]
NoRaw == [some |-> FALSE, source_file |-> "", source_bank |-> "", row_number |-> 0,
          parsed_at |-> 0]
NoRawDict == [some |-> FALSE, source_file |-> "", source_bank |-> "", row_number |-> 0,
              parsed_at |-> ""]

\* The Decimal values of the model.
DecPool == Amounts \cup {Dec(0, 0), Dec(0, 2), Dec(10000, 2)}
OptDecs == {NoDec, SomeDec(Dec(0, 0)), SomeDec(Dec(10000, 2))}

\* str(Decimal) is DecimalStr; Decimal(str) reads it back.
DecimalOf(str) == CHOOSE d \in DecPool : DecimalStr(d) = str

\* date.isoformat() / date.fromisoformat()
DateIsoFormat(d) == CASE d = "20251101" -> "2025-11-01" [] OTHER -> d
DateFromIsoFormat(str) == CHOOSE d \in Dates : DateIsoFormat(d) = str

\* datetime.isoformat() / datetime.fromisoformat(), the clock in seconds.
IsoFormat(ts) == "2025-11-01T00:00:0" \o ToString(ts)
FromIsoFormat(str) == CHOOSE ts \in 0..MaxClock : IsoFormat(ts) = str

\* TransactionType(value): the member with that value.
TransactionTypes == {"debit", "credit", "transfer"}
TransactionType(value) == CHOOSE m \in TransactionTypes : m = value

\* A parsed transaction with balance, foreign_amount and raw_transaction.
FullTransaction(t, balance, foreign_amount, with_raw) ==
    [id |-> t.id, date |-> t.date, amount |-> t.amount, description |-> t.description,
     account_id |-> t.account_id, bank_source |-> t.bank_source,
     source_file |-> t.source_file, balance |-> balance,
     original_category |-> t.original_category, category |-> t.category,
     transaction_type |-> t.transaction_type, foreign_amount |-> foreign_amount,
     raw_transaction |-> IF with_raw
                         THEN [some |-> TRUE, source_file |-> t.source_file,
                               source_bank |-> t.bank_source,
                               row_number |-> t.row_number, parsed_at |-> t.created_at]
                         ELSE NoRaw,
     created_at |-> t.created_at]

\* A variant of to_dict that tests the optional amounts for truth.
ToDictTruthy(t) ==
    [id |-> t.id, date |-> DateIsoFormat(t.date), amount |-> DecimalStr(t.amount),
     description |-> t.description, account_id |-> t.account_id,
     bank_source |-> t.bank_source, source_file |-> t.source_file,
     balance |-> IF t.balance.some /\ t.balance.d.c # 0
                 THEN SomeStr(DecimalStr(t.balance.d)) ELSE NoStr,
     original_category |-> t.original_category, category |-> t.category,
     transaction_type |-> t.transaction_type,
     foreign_amount |-> IF t.foreign_amount.some /\ t.foreign_amount.d.c # 0
                        THEN SomeStr(DecimalStr(t.foreign_amount.d)) ELSE NoStr,
     created_at |-> IsoFormat(t.created_at),
     raw_transaction |-> IF t.raw_transaction.some
                         THEN [t.raw_transaction EXCEPT
                                  !.parsed_at = IsoFormat(t.raw_transaction.parsed_at)]
                         ELSE NoRawDict]

\* Transaction.to_dict
ToDict(t) ==
    [id |-> t.id, date |-> DateIsoFormat(t.date), amount |-> DecimalStr(t.amount),
     description |-> t.description, account_id |-> t.account_id,
     bank_source |-> t.bank_source, source_file |-> t.source_file,
     balance |-> IF t.balance.some THEN SomeStr(DecimalStr(t.balance.d)) ELSE NoStr,
     original_category |-> t.original_category, category |-> t.category,
     transaction_type |-> t.transaction_type,
     foreign_amount |-> IF t.foreign_amount.some
                        THEN SomeStr(DecimalStr(t.foreign_amount.d)) ELSE NoStr,
     created_at |-> IsoFormat(t.created_at),
     raw_transaction |-> IF t.raw_transaction.some
                         THEN [t.raw_transaction EXCEPT
                                  !.parsed_at = IsoFormat(t.raw_transaction.parsed_at)]
                         ELSE NoRawDict]

\* bool(data.get(key)) for a key that holds None or a string
Truthy(opt) == opt.some /\ opt.s # ""

\* Transaction.from_dict
FromDict(data) ==
    [id |-> data.id, date |-> DateFromIsoFormat(data.date),
     amount |-> DecimalOf(data.amount),
     description |-> data.description, account_id |-> data.account_id,
     bank_source |-> data.bank_source, source_file |-> data.source_file,
     balance |-> IF Truthy(data.balance) THEN SomeDec(DecimalOf(data.balance.s)) ELSE NoDec,
     original_category |-> data.original_category, category |-> data.category,
     transaction_type |-> TransactionType(data.transaction_type),
     foreign_amount |-> IF Truthy(data.foreign_amount)
                        THEN SomeDec(DecimalOf(data.foreign_amount.s)) ELSE NoDec,
     raw_transaction |-> IF data.raw_transaction.some
                         THEN [data.raw_transaction EXCEPT
                                  !.parsed_at = FromIsoFormat(data.raw_transaction.parsed_at)]
                         ELSE NoRaw,
     created_at |-> FromIsoFormat(data.created_at)]

\* The transactions handed to to_dict and to the store.
FullPool ==
    {FullTransaction(t, b, f, r) : t \in StorePool, b \in OptDecs, f \in OptDecs,
                                   r \in BOOLEAN}

DictInit ==
    /\ pin \in {[bank |-> "", files |-> <<>>, t |-> t] : t \in FullPool}
    /\ pout = <<>>

CallToDict ==
    /\ pout = <<>>
    /\ pout' = <<ToDict(pin.t)>>
    /\ UNCHANGED <<pin, clock, envVars, factoryVars, storeVars, watchVars>>

CallFromDict ==
    /\ Len(pout) = 1
    /\ pout' = Append(pout, FromDict(pout[1]))
    /\ UNCHANGED <<pin, clock, envVars, factoryVars, storeVars, watchVars>>

(***************************************************************************)
(* What the two back ends keep of a transaction and give back.             *)
(***************************************************************************)
\* The tuple SQLiteRepository.save_transaction inserts: TEXT columns.
SqliteRow(t) ==
    [id |-> t.id, date |-> DateIsoFormat(t.date), amount |-> DecimalStr(t.amount),
     description |-> t.description, account_id |-> t.account_id,
     bank_source |-> t.bank_source, source_file |-> t.source_file,
     balance |-> IF t.balance.some THEN SomeStr(DecimalStr(t.balance.d)) ELSE NoStr,
     original_category |-> t.original_category, category |-> t.category,
     transaction_type |-> t.transaction_type,
     foreign_amount |-> IF t.foreign_amount.some
                        THEN SomeStr(DecimalStr(t.foreign_amount.d)) ELSE NoStr,
     created_at |-> IsoFormat(t.created_at)]

\* SQLiteRepository._row_to_transaction
RowToTransaction(row) ==
    [id |-> row.id, date |-> DateFromIsoFormat(row.date), amount |-> DecimalOf(row.amount),
     description |-> row.description, account_id |-> row.account_id,
     bank_source |-> row.bank_source, source_file |-> row.source_file,
     balance |-> IF Truthy(row.balance) THEN SomeDec(DecimalOf(row.balance.s)) ELSE NoDec,
     original_category |-> row.original_category, category |-> row.category,
     transaction_type |-> TransactionType(row.transaction_type),
     foreign_amount |-> IF Truthy(row.foreign_amount)
                        THEN SomeDec(DecimalOf(row.foreign_amount.s)) ELSE NoDec,
     raw_transaction |-> NoRaw,
     created_at |-> FromIsoFormat(row.created_at)]

\* A Numeric(15, 2) column: the value with two decimal places.
Numeric(d) == IF d.e <= 2 THEN Dec(d.c * Pow10(2 - d.e), 2) ELSE Dec(d.c \div Pow10(d.e - 2), 2)
OptNumeric(opt) == IF opt.some THEN SomeDec(Numeric(opt.d)) ELSE NoDec

\* The TransactionModel PostgresRepository.save_transaction adds.
TransactionModel(t) ==
    [id |-> t.id, date |-> t.date, amount |-> Numeric(t.amount),
     description |-> t.description, account_id |-> t.account_id,
     bank_source |-> t.bank_source, source_file |-> t.source_file,
     balance |-> OptNumeric(t.balance),
     original_category |-> t.original_category, category |-> t.category,
     transaction_type |-> t.transaction_type,
     foreign_amount |-> OptNumeric(t.foreign_amount),
     created_at |-> t.created_at]

\* bool(value) of a column that holds None or a Decimal
TruthyDec(opt) == opt.some /\ opt.d.c # 0

\* PostgresRepository._model_to_transaction
ModelToTransaction(model) ==
    [id |-> model.id, date |-> model.date,
     amount |-> DecimalOf(DecimalStr(model.amount)),
     description |-> model.description, account_id |-> model.account_id,
     bank_source |-> model.bank_source, source_file |-> model.source_file,
     balance |-> IF TruthyDec(model.balance)
                 THEN SomeDec(DecimalOf(DecimalStr(model.balance.d))) ELSE NoDec,
     original_category |-> model.original_category, category |-> model.category,
     transaction_type |-> TransactionType(model.transaction_type),
     foreign_amount |-> IF TruthyDec(model.foreign_amount)
                        THEN SomeDec(DecimalOf(DecimalStr(model.foreign_amount.d)))
                        ELSE NoDec,
     raw_transaction |-> NoRaw,
     created_at |-> model.created_at]

Persisted(be, t) == IF be = "sqlite" THEN SqliteRow(t) ELSE TransactionModel(t)
Fetched(be, row) == IF be = "sqlite" THEN RowToTransaction(row) ELSE ModelToTransaction(row)

NoFetch == [op |-> "none", ret |-> "", got |-> <<>>]

FetchInit ==
    /\ store = {}
    /\ lastSave = NoFetch
    /\ saves = 0

\* save_transaction(t) on the transaction under test.
CallSaveFull ==
    /\ lastSave.op = "none"
    /\ LET row == Persisted(backend, pin.t)
       IN IF IntegrityError(store, row)
          THEN /\ lastSave' = [NoFetch EXCEPT !.op = "save_transaction", !.ret = "False"]
               /\ UNCHANGED store
          ELSE /\ lastSave' = [NoFetch EXCEPT !.op = "save_transaction", !.ret = "True"]
               /\ store' = store \cup {row}
    /\ saves' = saves + 1
    /\ UNCHANGED <<envVars, factoryVars, clock, parseVars, watchVars>>

\* get_transaction_by_id(t.id)
CallGetTransactionById ==
    /\ lastSave.op = "save_transaction"
    /\ lastSave' = [lastSave EXCEPT
                       !.op = "get_transaction_by_id",
                       !.got = IF IdIn(store, pin.t.id)
                               THEN <<Fetched(backend, CHOOSE r \in store : r.id = pin.t.id)>>
                               ELSE <<>>]
    /\ UNCHANGED <<envVars, factoryVars, clock, store, saves, parseVars, watchVars>>

(***************************************************************************)
(* Poll cycles over a directory that holds several files when the watcher  *)
(* starts.                                                                 *)
(***************************************************************************)
CycleContents ==
    {[fmt |-> "westpac", rows |-> <<>>], BinaryContent}
      \cup {[fmt |-> f, rows |-> <<r>>] : f \in {"westpac", "headerless"},
                                          r \in {CHOOSE x \in PoolRows : TRUE}}

\* The files of the directory in scan order; pin keeps them for the run.
DirInit(paths, most) ==
    /\ \E ps \in SUBSET paths :
          /\ Cardinality(ps) \in 1..most
          /\ \E f \in [ps -> CycleContents] :
                LET q == SelectSeq(PathOrder, LAMBDA p : p \in ps)
                    fidOf(p) == CHOOSE i \in DOMAIN q : q[i] = p
                IN /\ pin = [bank |-> "", files |-> [i \in DOMAIN q |-> FileAt(q[i], f[q[i]])]]
                   /\ watch = [p \in ps |-> [fid |-> fidOf(p), content |-> f[p], tries |-> 0]]
                   /\ puts = Cardinality(ps)
    /\ pout = <<>>
    /\ processed = NoFiles
    /\ failed = NoFiles
    /\ sidecars = NoFiles
    /\ queue = <<>>
    /\ pc = "sleep"
    /\ count = 0
    /\ imported = {}
    /\ last = NoCall

CycleInit == DirInit(CyclePaths, MaxFiles)

(***************************************************************************)
(* run() step by step: process_file as the calls it makes one after the    *)
(* other, with the two things that can happen between any two of them: a   *)
(* file of the watch directory is taken away by somebody else, and the     *)
(* interrupt signal (KeyboardInterrupt) arrives.                           *)
(*   pc: "sleep"    time.sleep of run()                                    *)
(*       "cycle"    run_once between two files                             *)
(*       "parsed"   process_file after parse_file, before save_transactions*)
(*       "saved"    after save_transactions, before _move_to_processed     *)
(*       "failing"  in an except clause, before shutil.move of             *)
(*                  _move_to_failed                                        *)
(*       "noting"   in _move_to_failed after shutil.move, before           *)
(*                  error_log.write_text                                   *)
(*       "crashed"  an exception has left run()                            *)
(*       "stopped"  run() has caught KeyboardInterrupt and returned        *)
(***************************************************************************)
RunInit == DirInit(Paths, MaxRunFiles)

FidOf(path) == CHOOSE i \in DOMAIN pin.files : pin.files[i].path = path

\* parse_file on a path whose file is gone: the parsers that read the header
\* refuse it, and a parser that took it by its path fails to open it.
ParseGone(path) ==
    LET r == ParseFile(parsers, path, BinaryContent, clock)
    IN [r EXCEPT !.raised = IF @ = "decode" THEN "not_found" ELSE @]

\* process_file up to the return of parse_file.
StepParse ==
    /\ pc = "cycle"
    /\ queue # <<>>
    /\ LET path == Head(queue)
           here == path \in DOMAIN watch
           content == IF here THEN watch[path].content ELSE BinaryContent
           res == IF here THEN ParseFile(parsers, path, content, clock) ELSE ParseGone(path)
           n == Len(res.transactions)
           call == [NoCall EXCEPT !.path = path, !.fid = FidOf(path), !.content = content,
                                  !.parsed = n, !.before = store, !.error = res.raised]
       IN /\ last' = call
          /\ IF res.raised # "" THEN /\ pc' = "failing"
                                     /\ UNCHANGED <<queue, watch>>
             ELSE IF n = 0 THEN /\ pc' = "cycle"
                                /\ queue' = Tail(queue)
                                /\ watch' = [watch EXCEPT ![path].tries =
                                                            IF @ < 2 THEN @ + 1 ELSE @]
             ELSE /\ pc' = "parsed"
                  /\ UNCHANGED <<queue, watch>>
    /\ UNCHANGED <<envVars, factoryVars, clock, storeVars, parseVars, processed, failed,
                   sidecars, count, puts, imported>>

\* self.repo.save_transactions(transactions)
StepSave ==
    /\ pc = "parsed"
    /\ LET transactions == ParseFile(parsers, last.path, last.content, clock).transactions
       IN \E faults \in FaultSets(last.parsed) :
             LET sv == SaveTransactions(backend, store, transactions, faults)
             IN /\ store' = sv.store
                /\ IF sv.raised
                   THEN /\ pc' = "failing"
                        /\ last' = [last EXCEPT !.faults = faults, !.error = "store"]
                   ELSE /\ pc' = "saved"
                        /\ last' = [last EXCEPT !.faults = faults, !.saved = sv.saved,
                                                !.skipped = sv.skipped]
    /\ UNCHANGED <<envVars, factoryVars, clock, lastSave, saves, parseVars, watch, processed,
                   failed, sidecars, queue, count, puts, imported>>

\* _move_to_processed and return True; shutil.move raises when the file is
\* gone, and the except Exception clause takes over.
StepMoveToProcessed ==
    /\ pc = "saved"
    /\ IF last.path \in DOMAIN watch
       THEN /\ MoveToProcessed(last.path)
            /\ last' = [last EXCEPT !.ret = TRUE]
            /\ count' = count + 1
            /\ queue' = Tail(queue)
            /\ pc' = "cycle"
       ELSE /\ pc' = "failing"
            /\ last' = [last EXCEPT !.error = "not_found"]
            /\ UNCHANGED <<watch, processed, failed, sidecars, count, queue>>
    /\ UNCHANGED <<envVars, factoryVars, clock, storeVars, parseVars, puts, imported>>

\* shutil.move of _move_to_failed, called in an except clause: an exception
\* it raises leaves process_file, run_once and run().
StepMoveToFailed ==
    /\ pc = "failing"
    /\ IF last.path \in DOMAIN watch
       THEN /\ failed' = Put(failed, FailedDest(last.path, clock), watch[last.path])
            /\ watch' = Drop(watch, last.path)
            /\ pc' = "noting"
       ELSE /\ pc' = "crashed"
            /\ UNCHANGED <<watch, failed>>
    /\ UNCHANGED <<envVars, factoryVars, clock, storeVars, parseVars, processed, sidecars,
                   queue, count, puts, imported, last>>

\* error_log.write_text of _move_to_failed, and return False.
StepWriteNote ==
    /\ pc = "noting"
    /\ sidecars' = Put(sidecars, FailedDest(last.path, clock),
                       [name |-> last.path.stem \o ".csv",
                        error |-> ErrorText(last.error, last.path, parsers)])
    /\ queue' = Tail(queue)
    /\ pc' = "cycle"
    /\ UNCHANGED <<envVars, factoryVars, clock, storeVars, parseVars, watch, processed, failed,
                   count, puts, imported, last>>

\* Somebody else takes a file out of the watch directory.
RemoveFile ==
    /\ pc \notin {"crashed", "stopped"}
    /\ \E path \in DOMAIN watch : watch' = Drop(watch, path)
    /\ UNCHANGED <<envVars, factoryVars, clock, storeVars, parseVars, processed, failed,
                   sidecars, queue, pc, count, puts, imported, last>>

\* The interrupt signal: KeyboardInterrupt is raised where the program
\* stands; it is no Exception, so only the except clause of run() takes it.
Interrupt ==
    /\ pc \notin {"crashed", "stopped"}
    /\ pc' = "stopped"
    /\ UNCHANGED <<envVars, factoryVars, clock, storeVars, parseVars, watch, processed, failed,
                   sidecars, queue, count, puts, imported, last>>

(***************************************************************************)
(* Factory runs: a client registers and unregisters parsers and asks the   *)
(* factory about one file.                                                 *)
(***************************************************************************)
FactoryContents ==
    {[fmt |-> f, rows |-> <<r>>] : f \in Formats, r \in {CHOOSE x \in PoolRows : TRUE}}
        \cup {BinaryContent}

FactoryFileInit ==
    /\ pin \in {[bank |-> "", files |-> <<FileAt(p, c)>>] :
                    p \in Paths, c \in FactoryContents}
    /\ pout = <<>>

CallRegister ==
    /\ regs < MaxRegs
    /\ \E name \in Names :
          /\ parsers' = Register(parsers, name)
          /\ found' = [NoFound EXCEPT !.op = "register", !.parser_name = name]
    /\ regs' = regs + 1
    /\ UNCHANGED <<envVars, clock, storeVars, parseVars, watchVars>>

CallUnregister ==
    /\ regs < MaxRegs
    /\ \E name \in Names :
          /\ parsers' = Unregister(parsers, name)
          /\ found' = [NoFound EXCEPT !.op = "unregister", !.parser_name = name]
    /\ regs' = regs + 1
    /\ UNCHANGED <<envVars, clock, storeVars, parseVars, watchVars>>

CallDetectParser ==
    /\ found' = [NoFound EXCEPT !.op = "detect_parser",
                                 !.parser = DetectParser(parsers, pin.files[1].path,
                                                         pin.files[1].content)]
    /\ UNCHANGED <<envVars, parsers, regs, clock, storeVars, parseVars, watchVars>>

CallParseFile ==
    /\ \E parser_name \in Names \cup {""} :
          LET f == pin.files[1]
              r == ParseFileWith(parsers, f.path, f.content, parser_name, clock)
          IN found' = [op |-> "parse_file", parser_name |-> parser_name,
                       raised |-> r.raised, parser |-> r.parser,
                       transactions |-> r.transactions,
                       error |-> FactoryError(r.raised, f.path, parsers, parser_name)]
    /\ UNCHANGED <<envVars, parsers, regs, clock, storeVars, parseVars, watchVars>>

(***************************************************************************)
(* The Westpac scraper (python -m src.scrapers.westpac), run after run.    *)
(* scraper.pc: "idle"    no run in progress; exit is the last exit status  *)
(*             "delay"   main() in the sleep of the random delay           *)
(*             "main"    main() before is_locked()                         *)
(*             "scrape"  scrape_westpac() before the credentials are read  *)
(*             "launch"  before p.chromium.launch, outside the try block   *)
(*             "login"   steps 1 to 4 and the check of the URL after them  *)
(*             "export"  steps 5 to 10                                     *)
(*             "close"   the finally clause, before browser.close()        *)
(*             "finish"  main() with the value scrape_westpac returned     *)
(* scraper.downloads counts the CSV files saved into DOWNLOAD_DIR,         *)
(* scraper.delayed tells that the run has slept the random delay.          *)
(* An exception that leaves scrape_westpac leaves main() and               *)
(* asyncio.run(): the interpreter exits with status 1.                     *)
(***************************************************************************)
NoExit == 0 - 1

LoginOutcomes == {"ok", "goto_timeout", "timeout", "error", "still_login"}
ExportOutcomes == {"ok", "timeout", "error"}

ScraperInit ==
    /\ lock = FALSE
    /\ scraper = [pc |-> "idle", locked |-> FALSE, launched |-> FALSE, login |-> FALSE,
                  success |-> FALSE, exit |-> NoExit, downloads |-> 0, delayed |-> FALSE]
    /\ scrapes = 0

is_locked == lock

SysExit(status) == [scraper EXCEPT !.pc = "idle", !.exit = status]

StartMain ==
    /\ scraper.pc = "idle"
    /\ scrapes < MaxScrapes
    /\ scrapes' = scrapes + 1
    /\ \E random_delay_enabled \in BOOLEAN :
         scraper' = [pc |-> IF random_delay_enabled THEN "delay" ELSE "main",
                     locked |-> lock, launched |-> FALSE, login |-> FALSE,
                     success |-> FALSE, exit |-> NoExit,
                     downloads |-> scraper.downloads, delayed |-> FALSE]
    /\ UNCHANGED <<lock, backend, faulty, factoryVars, storeVars, parseVars, clock,
                   watchVars>>

RandomDelay ==
    /\ scraper.pc = "delay"
    /\ scraper' = [scraper EXCEPT !.pc = "main", !.delayed = TRUE]
    /\ UNCHANGED <<lock, scrapes, backend, faulty, factoryVars, storeVars, parseVars,
                   clock, watchVars>>

CheckLock ==
    /\ scraper.pc = "main"
    /\ scraper' = IF is_locked THEN SysExit(2) ELSE [scraper EXCEPT !.pc = "scrape"]
    /\ UNCHANGED <<lock, scrapes, backend, faulty, factoryVars, storeVars, parseVars,
                   clock, watchVars>>

GetCredentials ==
    /\ scraper.pc = "scrape"
    /\ \E credentials \in BOOLEAN :
         scraper' = IF credentials THEN [scraper EXCEPT !.pc = "launch"]
                    ELSE [scraper EXCEPT !.pc = "finish", !.success = FALSE]
    /\ UNCHANGED <<lock, scrapes, backend, faulty, factoryVars, storeVars, parseVars,
                   clock, watchVars>>

LaunchBrowser ==
    /\ scraper.pc = "launch"
    /\ \E raised \in BOOLEAN :
         scraper' = IF raised THEN SysExit(1)
                    ELSE [scraper EXCEPT !.pc = "login", !.launched = TRUE]
    /\ UNCHANGED <<lock, scrapes, backend, faulty, factoryVars, storeVars, parseVars,
                   clock, watchVars>>

Login ==
    /\ scraper.pc = "login"
    /\ \E outcome \in LoginOutcomes :
         scraper' = [scraper EXCEPT !.pc = IF outcome = "ok" THEN "export" ELSE "close",
                                    !.login = outcome # "goto_timeout",
                                    !.success = FALSE]
    /\ UNCHANGED <<lock, scrapes, backend, faulty, factoryVars, storeVars, parseVars,
                   clock, watchVars>>

Export ==
    /\ scraper.pc = "export"
    /\ \E outcome \in ExportOutcomes :
         scraper' = [scraper EXCEPT !.pc = "close", !.success = (outcome = "ok"),
                                    !.downloads = IF outcome = "ok" THEN @ + 1 ELSE @]
    /\ UNCHANGED <<lock, scrapes, backend, faulty, factoryVars, storeVars, parseVars,
                   clock, watchVars>>

CloseBrowser ==
    /\ scraper.pc = "close"
    /\ \E raised \in BOOLEAN :
         scraper' = IF raised THEN SysExit(1) ELSE [scraper EXCEPT !.pc = "finish"]
    /\ UNCHANGED <<lock, scrapes, backend, faulty, factoryVars, storeVars, parseVars,
                   clock, watchVars>>

Finish ==
    /\ scraper.pc = "finish"
    /\ IF scraper.success
       THEN /\ scraper' = SysExit(0)
            /\ UNCHANGED lock
       ELSE /\ lock' = TRUE
            /\ scraper' = SysExit(1)
    /\ UNCHANGED <<scrapes, backend, faulty, factoryVars, storeVars, parseVars, clock,
                   watchVars>>

\* The operator deletes the lock file by hand between two runs.
ManualDelete ==
    /\ scraper.pc = "idle"
    /\ lock
    /\ lock' = FALSE
    /\ UNCHANGED <<scraper, scrapes, backend, faulty, factoryVars, storeVars, parseVars,
                   clock, watchVars>>

(***************************************************************************)
(* Specifications                                                          *)
(***************************************************************************)
NoParseInput == [bank |-> "", files |-> <<>>]

\* The watcher on its directory, with the store behind it.
Init ==
    /\ backend \in Backends
    /\ faulty = TRUE
    /\ ScraperInit
    /\ FactoryInit
    /\ clock = 0
    /\ StoreInit
    /\ pin \in {[bank |-> "", files |-> <<FileAt([dir |-> "", stem |-> ""], c)>>] :
                    c \in TextContents}
    /\ pout = <<>>
    /\ WatchInit

Next == PutFile \/ Scan \/ ProcessFile \/ EndCycle \/ Tick

Spec == Init /\ [][Next]_vars

\* The scraper started again and again, by cron or by hand.
InitScraper ==
    /\ backend = "sqlite"
    /\ faulty = FALSE
    /\ ScraperInit
    /\ FactoryInit
    /\ clock = 0
    /\ StoreInit
    /\ pin = NoParseInput
    /\ pout = <<>>
    /\ WatchInit

NextScraper ==
    StartMain \/ RandomDelay \/ CheckLock \/ GetCredentials \/ LaunchBrowser \/ Login \/ Export
        \/ CloseBrowser \/ Finish \/ ManualDelete

SpecScraper == InitScraper /\ [][NextScraper]_vars

\* One parser on one file.
InitParse ==
    /\ backend = "sqlite"
    /\ faulty = FALSE
    /\ ScraperInit
    /\ FactoryInit
    /\ clock = 0
    /\ StoreInit
    /\ ParseInit
    /\ WatchInit

NextParse == ParseCall \/ Tick

SpecParse == InitParse /\ [][NextParse]_vars

\* One parser on a one-row file, over the columns that decide amount and type.
InitTypes ==
    /\ backend = "sqlite"
    /\ faulty = FALSE
    /\ ScraperInit
    /\ FactoryInit
    /\ clock = 0
    /\ StoreInit
    /\ TypesInit
    /\ WatchInit

NextTypes == ParseCall \/ Tick

SpecTypes == InitTypes /\ [][NextTypes]_vars

\* A transaction written to a dictionary and read back.
InitDict ==
    /\ backend = "sqlite"
    /\ faulty = FALSE
    /\ ScraperInit
    /\ FactoryInit
    /\ clock = 0
    /\ StoreInit
    /\ DictInit
    /\ WatchInit

NextDict == CallToDict \/ CallFromDict

SpecDict == InitDict /\ [][NextDict]_vars

\* A transaction saved and fetched again, on either back end.
InitFetch ==
    /\ backend \in Backends
    /\ faulty = FALSE
    /\ ScraperInit
    /\ FactoryInit
    /\ clock = 0
    /\ FetchInit
    /\ DictInit
    /\ WatchInit

NextFetch == CallSaveFull \/ CallGetTransactionById

SpecFetch == InitFetch /\ [][NextFetch]_vars

\* One parser on a file with malformed lines.
InitLines ==
    /\ backend = "sqlite"
    /\ faulty = FALSE
    /\ ScraperInit
    /\ FactoryInit
    /\ clock = 0
    /\ StoreInit
    /\ LinesInit
    /\ WatchInit

NextLines == ParseCall \/ Tick

SpecLines == InitLines /\ [][NextLines]_vars

\* The watcher started on a directory that holds files already.
InitCycle ==
    /\ backend \in Backends
    /\ faulty \in BOOLEAN
    /\ ScraperInit
    /\ FactoryInit
    /\ clock = 0
    /\ StoreInit
    /\ CycleInit

NextCycle == Scan \/ ProcessFile \/ EndCycle

SpecCycle == InitCycle /\ [][NextCycle]_vars

\* run() on a directory that others write to, with the signal.
InitRun ==
    /\ backend \in Backends
    /\ faulty \in BOOLEAN
    /\ ScraperInit
    /\ FactoryInit
    /\ clock = 0
    /\ StoreInit
    /\ RunInit

NextRun ==
    \/ Scan \/ StepParse \/ StepSave \/ StepMoveToProcessed \/ StepMoveToFailed
    \/ StepWriteNote \/ EndCycle \/ RemoveFile \/ Interrupt

SpecRun == InitRun /\ [][NextRun]_vars

\* A client on the store.
InitStore ==
    /\ backend \in Backends
    /\ faulty = TRUE
    /\ ScraperInit
    /\ FactoryInit
    /\ clock = 0
    /\ StoreInit
    /\ pin = NoParseInput
    /\ pout = <<>>
    /\ WatchInit

NextStore == CallSaveTransaction \/ CallSaveTransactions \/ CallUpdateTransactionCategory

SpecStore == InitStore /\ [][NextStore]_vars

\* A client on the factory.
InitFactory ==
    /\ backend = "sqlite"
    /\ faulty = FALSE
    /\ ScraperInit
    /\ FactoryInit
    /\ clock = 0
    /\ StoreInit
    /\ FactoryFileInit
    /\ WatchInit

NextFactory == CallRegister \/ CallUnregister \/ CallDetectParser \/ CallParseFile

SpecFactory == InitFactory /\ [][NextFactory]_vars

\* Imports of two files through one parser.
InitImport ==
    /\ backend \in Backends
    /\ faulty = FALSE
    /\ ScraperInit
    /\ FactoryInit
    /\ clock = 0
    /\ StoreInit
    /\ ImportInit
    /\ WatchInit

NextImport == ImportFile \/ Tick

SpecImport == InitImport /\ [][NextImport]_vars

(***************************************************************************)
(* Properties                                                              *)
(***************************************************************************)
SigOf(t) == <<t.bank_source, t.date, t.account_id, DecimalStr(t.amount), t.description>>

TwoIdenticalRows(content) ==
    Len(content.rows) = 2 /\ content.rows[1] = content.rows[2]

OnceIn(transactions, sig) ==
    Cardinality({i \in DOMAIN transactions : SigOf(transactions[i]) = sig}) = 1

\* C3: a transaction that occurs once in file A and once in file B (same bank,
\* date, account, amount, description) has the same id in both parses, and the
\* store holds one record of it once both files are imported.
C3_SameTransactionSameId ==
    (\A i \in DOMAIN pin.files : pin.files[i] \in imported) =>
        LET A == Parse(pin.bank, pin.files[1].path, pin.files[1].content, 0)
            B == Parse(pin.bank, pin.files[2].path, pin.files[2].content, 0)
        IN \A i \in DOMAIN A, j \in DOMAIN B :
              (/\ SigOf(A[i]) = SigOf(B[j])
               /\ OnceIn(A, SigOf(A[i]))
               /\ OnceIn(B, SigOf(B[j])))
                 => /\ A[i].id = B[j].id
                    /\ Cardinality({r \in store : SigOf(r) = SigOf(A[i])}) = 1

\* The place of transaction i among the transactions of its signature.
RankIn(transactions, i) ==
    Cardinality({j \in 1..i : Signature(transactions[j]) = Signature(transactions[i])})

\* C4: in a parse, the transactions that share (date, account, amount,
\* description) carry the occurrence numbers 1..N in row order in their ids.
C4_OccurrenceCompleteness ==
    \A k \in DOMAIN pout : \A i \in DOMAIN pout[k] :
        LET t == pout[k][i]
        IN t.id = GenerateTransactionId(t.bank_source, t.date, t.account_id, t.amount,
                                        t.description, RankIn(pout[k], i))

SansCreatedAt(transactions) ==
    [i \in DOMAIN transactions |-> [transactions[i] EXCEPT !.created_at = 0]]

C6_IdsUniqueInBatch ==
    \A k \in DOMAIN pout : \A i, j \in DOMAIN pout[k] :
        i # j => pout[k][i].id # pout[k][j].id

\* C7: however often and wherever in the watch directory the statement is
\* dropped, the store holds no more than one record per row of it.
C7_AtMostOnce ==
    Cardinality(store) <= Len(pin.files[1].content.rows)

InWatch(fid) == \E p \in DOMAIN watch : watch[p].fid = fid
InProcessed(fid) == \E d \in DOMAIN processed : processed[d].fid = fid
InFailed(fid) == \E d \in DOMAIN failed : failed[d].fid = fid

\* C8: when process_file has returned, the file it handled is no longer in
\* the watch directory: it lies under processed/ or under failed/.
C8_TerminalStates ==
    last.fid # 0 => (~InWatch(last.fid) /\ (InProcessed(last.fid) \/ InFailed(last.fid)))

\* C9: no file is handed to process_file a second time unless an operator
\* has put it back.
C9_NoAutomaticRetry ==
    \A p \in DOMAIN watch : watch[p].tries <= 1

\* C10: every file dropped into the watch directory is held by exactly one of
\* the watch directory, processed/ and failed/.
C10_NoFileLost ==
    \A fid \in 1..puts :
        Cardinality({d \in DOMAIN watch : watch[d].fid = fid})
          + Cardinality({d \in DOMAIN processed : processed[d].fid = fid})
          + Cardinality({d \in DOMAIN failed : failed[d].fid = fid}) = 1


\* C14: save_transactions goes through the whole batch whatever fails on the
\* way: it returns, and its two counts add up to the length of the batch.
C14_NoAbortOnFailure ==
    lastSave.op = "save_transactions" =>
        /\ lastSave.ret = "return"
        /\ lastSave.saved + lastSave.skipped = Len(lastSave.batch)

\* The elements of a batch whose id was stored before the call or came
\* earlier in the batch.
DuplicatesIn(batch, before) ==
    {i \in DOMAIN batch : \/ IdIn(before, batch[i].id)
                          \/ \E j \in 1..(i - 1) : batch[j].id = batch[i].id}

C17_AppendOnly == [][saves' # saves => store \subseteq store']_vars

\* A record that was given a category is saved again and refused.
C17_Witness ==
    /\ lastSave.op = "save_transaction"
    /\ lastSave.ret = "False"
    /\ lastSave.faults = {}
    /\ \E r \in lastSave.before : r.id = lastSave.batch[1].id /\ r.category # ""
    /\ lastSave.batch[1].category = ""


Accepts(name) ==
    CanParseOutcome(name, pin.files[1].path, pin.files[1].content) = "True"

\* C18: detect_parser returns the first parser in registration order whose
\* can_parse returns True, passing over the parsers that return False or
\* raise, and None only when no registered parser accepts the file; a name
\* registered again keeps its place in the order.
C18_DetectFirstInOrder ==
    /\ [](found.op = "detect_parser" =>
             /\ found.parser = "none" <=> ~\E i \in DOMAIN parsers : Accepts(parsers[i])
             /\ \A i \in DOMAIN parsers :
                   (Accepts(parsers[i]) /\ \A j \in 1..(i - 1) : ~Accepts(parsers[j]))
                      => found.parser = parsers[i])
    /\ [][(found'.op = "register" /\ regs' # regs
              /\ found'.parser_name \in Registered(parsers)) => parsers' = parsers]_vars

\* Detection went past a parser that refused and one that raised, and
\* returned a parser registered after them.
C18_Witness ==
    /\ found.op = "detect_parser"
    /\ \E i, j, k \in DOMAIN parsers :
          /\ i < k /\ j < k
          /\ CanParseOutcome(parsers[i], pin.files[1].path, pin.files[1].content) = "False"
          /\ CanParseOutcome(parsers[j], pin.files[1].path, pin.files[1].content) = "raise"
          /\ found.parser = parsers[k]

\* C19: with a parser name, parse_file uses that parser without detection,
\* whatever its can_parse says of the file, and raises the unknown-parser
\* error for a name that is not registered; without a name it detects, and
\* raises an error naming all registered parsers when none accepts the file.
C19_ParseFileDispatch ==
    found.op = "parse_file" =>
        LET f == pin.files[1]
        IN /\ (found.parser_name # "" /\ found.parser_name \in Registered(parsers)) =>
                 /\ found.parser = found.parser_name
                 /\ found.raised \notin {"no_parser", "unknown_parser"}
                 /\ f.content.fmt # "binary" =>
                       found.transactions = Parse(found.parser_name, f.path, f.content, clock)
           /\ (found.parser_name # "" /\ found.parser_name \notin Registered(parsers)) =>
                 /\ found.raised = "unknown_parser"
                 /\ found.error.parser_name = found.parser_name
           /\ found.parser_name = "" =>
                 /\ found.raised = "no_parser" <=> ~\E i \in DOMAIN parsers : Accepts(parsers[i])
                 /\ found.raised = "no_parser" => found.error.parsers = parsers
                 /\ found.raised # "no_parser" =>
                       found.parser = DetectParser(parsers, f.path, f.content)

\* A parser was named whose can_parse rejects the file, and it parsed it.
C19_Witness ==
    /\ found.op = "parse_file"
    /\ found.parser_name \in Registered(parsers)
    /\ ~Accepts(found.parser_name)
    /\ found.transactions # <<>>
    /\ DetectParser(parsers, pin.files[1].path, pin.files[1].content) # found.parser_name


\* A line a parser is to turn into a transaction: every column of the
\* dialect is there (ANZ exports leave the columns after the description
\* out), with a date, a description and amounts that are numbers.
WellFormed(bank, row) ==
    /\ row.date \notin {"", "bad"}
    /\ row.desc # ""
    /\ IF Layout(bank) = "headerless" THEN row.signed.k # "bad"
       ELSE row.debit.k # "bad" /\ row.credit.k # "bad"
    /\ row.ends = "full" \/ (bank = "anz" /\ row.ends = "desc")

WellFormedRowNums(bank, rows) ==
    LET idx == SelectSeq([i \in 1..Len(rows) |-> i], LAMBDA i : WellFormed(bank, rows[i]))
    IN [j \in 1..Len(idx) |-> idx[j] + FirstRowNum(bank) - 1]

\* C20: parse() of a readable file returns exactly one transaction per
\* well-formed row, in row order; an empty row, a row with a bad date or a
\* bad amount and a short row give no transaction and do not stop the rows
\* after them.
C20_RowLevelRecovery ==
    \A k \in DOMAIN pout :
        [i \in DOMAIN pout[k] |-> pout[k][i].row_number]
            = WellFormedRowNums(pin.bank, pin.files[1].content.rows)


\* What parse_file makes of the i-th file of the directory.
Parsed(i) == ParseFile(parsers, pin.files[i].path, pin.files[i].content, clock)

\* The i-th file matches no parser and every other file gives transactions.
OneUnrecognised(i) ==
    /\ Parsed(i).raised = "no_parser"
    /\ \A j \in DOMAIN pin.files \ {i} :
          Parsed(j).raised = "" /\ Len(Parsed(j).transactions) > 0

C12_FileErrorsRecovered == pc # "crashed"

\* C13: when run() has stopped on the interrupt signal, the file that was in
\* progress is neither saved and still in the watch directory, nor under
\* failed/ without its note.
C13_CleanCancellation ==
    pc = "stopped" =>
        /\ ~(last.fid # 0 /\ InWatch(last.fid) /\ last.parsed > 0
                /\ last.saved + last.skipped = last.parsed)
        /\ \A d \in DOMAIN failed : d \in DOMAIN sidecars


\* The value a reader of the statement sees in an amount column.
CellValue(cell) ==
    CASE cell.k = "empty" -> DecimalZero
      [] cell.k = "paren" -> DecNeg(cell.d)
      [] OTHER -> cell.d

TheRow == pin.files[1].content.rows[1]

\* No transfer keyword, transfer category or type code is on the row.
NoOverride(row) ==
    /\ row.desc \notin {"TRANSFER TO SAVINGS", "Transfer to savings"}
    /\ row.cat # "Financial"
    /\ row.type = ""

C22_SignTypeConsistency ==
    \A k \in DOMAIN pout : \A i \in DOMAIN pout[k] :
        LET t == pout[k][i]
        IN /\ t.transaction_type = "credit" => t.amount.c > 0
           /\ t.transaction_type = "debit" => t.amount.c <= 0

\* The description holds a transfer keyword of the bank, in any case.
HasTransferKeyword(row) == row.desc \in {"TRANSFER TO SAVINGS", "Transfer to savings"}

\* The amount columns of the row make it a credit.
SignIsCredit(bank, row) ==
    IF Layout(bank) = "headerless" THEN CellValue(row.signed).c > 0
    ELSE CellValue(row.credit).c > 0

\* C23: in Westpac, ANZ, CBA and Macquarie a credit row whose description
\* holds one of the bank's transfer keywords is emitted as a transfer,
\* whatever its other columns hold, with the amount of the sign rule.
C23_TransferOverride ==
    \A k \in DOMAIN pout : \A i \in DOMAIN pout[k] :
        (pin.bank \in {"westpac", "anz", "cba", "macquarie"}
            /\ SignIsCredit(pin.bank, TheRow) /\ HasTransferKeyword(TheRow))
        => /\ pout[k][i].transaction_type = "transfer"
           /\ pout[k][i].amount = (IF Layout(pin.bank) = "headerless"
                                   THEN CellValue(TheRow.signed)
                                   ELSE CellValue(TheRow.credit))


\* C24: Transaction.from_dict(t.to_dict()) equals t on every field, with or
\* without a raw_transaction, with the optional amounts absent, 0 or not 0.
C24_DictRoundTrip ==
    Len(pout) = 2 => pout[2] = pin.t

\* A transaction with balance 0, no foreign_amount and a raw_transaction
\* has gone through to_dict and from_dict.
C24_Witness ==
    /\ Len(pout) = 2
    /\ pin.t.balance = SomeDec(Dec(0, 0))
    /\ pin.t.foreign_amount = NoDec
    /\ pin.t.raw_transaction.some
    /\ pout[1].balance = SomeStr("0")
    /\ pout[2].balance = SomeDec(Dec(0, 0))


SameOptDec(a, b) == a.some = b.some /\ (a.some => DecEq(a.d, b.d))

\* C30: on both back ends, after save_transaction(t) has inserted t,
\* get_transaction_by_id(t.id) gives a transaction equal to t on every
\* persisted field, an optional amount of 0 coming back as 0, and without
\* raw_transaction.
C30_StoreRoundTrip ==
    (lastSave.op = "get_transaction_by_id" /\ lastSave.ret = "True") =>
        /\ Len(lastSave.got) = 1
        /\ LET got == lastSave.got[1]
               t == pin.t
           IN /\ [got EXCEPT !.amount = t.amount, !.balance = t.balance,
                             !.foreign_amount = t.foreign_amount]
                   = [t EXCEPT !.raw_transaction = NoRaw]
              /\ DecEq(got.amount, t.amount)
              /\ SameOptDec(got.balance, t.balance)
              /\ SameOptDec(got.foreign_amount, t.foreign_amount)


\* C25: after a scraper run that failed (scrape_westpac returned failure or
\* ended with an error) the lock file exists; a run started while the lock
\* file exists exits with status 2 and has neither launched the browser nor
\* attempted a login; and no step of a scraper run removes the lock file.
RunEnds == scraper.pc # "idle" /\ scraper'.pc = "idle"

FailedRunLeavesLock == RunEnds /\ scraper'.exit = 1 => lock'

LockedRunRefuses ==
    /\ scraper'.locked => ~scraper'.launched /\ ~scraper'.login
    /\ RunEnds /\ scraper'.locked => scraper'.exit = 2

NoRunRemovesLock == lock /\ ~lock' => scraper.pc = "idle" /\ UNCHANGED scraper

C25_FailSafeLock ==
    [][FailedRunLeavesLock /\ LockedRunRefuses /\ NoRunRemovesLock]_vars


\* C26: whenever a file lies under processed/, every transaction parsed from
\* it is in the store (inserted by this import or there before under the
\* same id): a save that failed for another reason than a duplicate id
\* keeps its file out of processed/.
ParsedFrom(dest) ==
    ParseFile(parsers, [dir |-> dest.dir, stem |-> dest.stem], processed[dest].content,
              dest.ts).transactions

FullySaved(dest) ==
    \A i \in 1..Len(ParsedFrom(dest)) : IdIn(store, ParsedFrom(dest)[i].id)

LastTransactions == ParseFile(parsers, last.path, last.content, clock).transactions

FirstFault == CHOOSE k \in last.faults : \A j \in last.faults : k <= j

BatchRaised == ~last.ret /\ last.parsed > 0 /\ last.faults # {}

StoredBefore == {i \in 1..last.parsed : IdIn(last.before, LastTransactions[i].id)}

PathRank(path) == CHOOSE i \in DOMAIN PathOrder : PathOrder[i] = path

InProgress == pc \in {"parsed", "saved", "failing", "noting"}

SortedQueue ==
    \A i, j \in DOMAIN queue : i < j => PathRank(queue[i]) < PathRank(queue[j])

OneFileAtATime ==
    /\ InProgress => queue # <<>> /\ last.path = Head(queue)
    /\ pc = "sleep" => queue = <<>>

StrictSteps ==
    /\ (InProgress /\ pc' \in {"parsed", "saved", "failing", "noting"}) =>
          queue' = queue /\ last'.path = last.path
    /\ (pc = "cycle" /\ pc' \in {"parsed", "saved", "failing", "noting"}) =>
          queue' = queue /\ last'.path = Head(queue)
    /\ queue' # queue =>
          \/ pc = "sleep" /\ queue = <<>>
          \/ pc \in {"cycle", "saved", "noting"} /\ pc' = "cycle" /\ queue' = Tail(queue)
    /\ \A p \in DOMAIN watch :
          (queue # <<>> /\ p # Head(queue)) => (p \in DOMAIN watch' => watch'[p] = watch[p])

C28_StrictSequencing ==
    [](SortedQueue /\ OneFileAtATime) /\ [][StrictSteps]_vars

\* The second file of a scan is in progress, after save_transactions: the
\* first one lies under processed/ and nothing else waits.
C28_Witness ==
    /\ pc = "saved"
    /\ Len(pin.files) = 2
    /\ last.fid = 2
    /\ InProcessed(1) /\ ~InWatch(1)
    /\ InWatch(2)
    /\ queue = <<last.path>>


\* C29: whenever process_file has returned, every file under failed/ has a
\* note of its own stem and timestamp that names the file and holds the
\* error its processing ended with; every note belongs to one file under
\* failed/, so no two failed files share a note; and a file that goes to
\* processed/ gets no note.
ErrorsOf(dest) ==
    UNION {{ErrorText(r, path, parsers) :
               r \in {ParseFile(parsers, path, failed[dest].content, dest.ts).raised,
                      "store"} \ {""}} :
           path \in {p \in CyclePaths : p.stem = dest.stem}}

OwnNote(dest) ==
    /\ dest \in DOMAIN sidecars
    /\ sidecars[dest].name = dest.stem \o ".csv"
    /\ sidecars[dest].error \in ErrorsOf(dest)

NoteOfLastFailure ==
    (last.fid # 0 /\ InFailed(last.fid)) =>
        \E dest \in DOMAIN failed :
            /\ failed[dest].fid = last.fid
            /\ dest.stem = last.path.stem
            /\ sidecars[dest].error \in
                  {ErrorText(r, last.path, parsers) :
                      r \in {ParseFile(parsers, last.path, last.content, dest.ts).raised,
                             "store"} \ {""}}

C29_SidecarInvariant ==
    /\ [](/\ \A dest \in DOMAIN failed : OwnNote(dest)
          /\ DOMAIN sidecars = DOMAIN failed
          /\ NoteOfLastFailure
          /\ \A fid \in 1..puts : InProcessed(fid) => ~InFailed(fid))
    /\ [][processed' # processed => sidecars' = sidecars]_vars

\* Two files lie under failed/, each with its own note, and the two notes
\* hold different errors; a third place, processed/, is empty.
C29_Witness ==
    \E d1, d2 \in DOMAIN failed :
        /\ d1 # d2
        /\ failed[d1].fid # failed[d2].fid
        /\ OwnNote(d1) /\ OwnNote(d2)
        /\ sidecars[d1].error # sidecars[d2].error

=============================================================================
